---- MODULE Spec2Model ----
(***************************************************************************)
(* Model of project_tracking/views.py: the project and task endpoints of   *)
(* the time tracker.  The store is the two tables the views query (Project *)
(* and Task); every handler is one action that evaluates the handler on    *)
(* the current store and the server clock and writes back the store and    *)
(* the response.  The methods of Task that the views call (is_closed,      *)
(* toggle_paused, close, restart) and the column defaults of Task live in  *)
(* models.py; they are modelled from the data model of the specification.  *)
(* Spec serves one request at a time; SpecConc serves create and continue  *)
(* on two workers, split at the statements they send to the store.  The    *)
(* routes ModelViewSet adds on its own (retrieve, update) go through the   *)
(* serializers, which are not part of views.py, and are not modelled.      *)
(***************************************************************************)
EXTENDS Integers, Sequences, FiniteSets, TLC

\* ------------------------------------------------------------------ bounds
MaxTasks == 2
MaxProjects == 2
MaxTime == 1
MaxSteps == 5

\* --------------------------------------------------------------- constants
Users == {"A", "B"}

\* A NULL column (ended_at__isnull / paused_at__isnull); timestamps are >= 0.
NULL == -1

\* A task created without cloned_from has no predecessor; ids start at 1.
NoTask == 0

HTTP_200_OK == 200
HTTP_201_CREATED == 201
HTTP_400_BAD_REQUEST == 400
HTTP_403_FORBIDDEN == 403
HTTP_404_NOT_FOUND == 404
HTTP_500_SERVER_ERROR == 500

VARIABLES
    projects,   \* the Project table: a sequence, the id of a row is its index
    tasks,      \* the Task table: a sequence, the id of a row is its index
    now,        \* the server clock read by timezone.now(), in seconds
    last,       \* the last request served and the status of its response
    steps,      \* the number of requests served and clock ticks so far
    inflight    \* per worker: the create/continue request it is serving

vars == <<projects, tasks, now, last, steps, inflight>>

\* ------------------------------------------------------------ request data
\* A value of request.data that the view passes to int(): absent from the
\* body, a text that is not a number, or a number.
Absent == [kind |-> "absent", val |-> 0]
Text == [kind |-> "text", val |-> 0]
Num(n) == [kind |-> "int", val |-> n]

IdInputs(max) == {Absent, Text} \cup {Num(n) : n \in 1..max}

\* Task names of a request body; the empty string is what `if task_name:`
\* treats as not given.
NameInputs == {"", "n"}

\* The label models.py gives a task that is created without a name.
DefaultName == "task"

\* Project names of a request body.
ProjectNameInputs == {"", "Alpha"}

\* Duration strings as sequences of characters.
Str_011505 == <<"0", "1", ":", "1", "5", ":", "0", "5">>
DurationInputs ==
    { <<>>,
      <<"0", ":", "0", ":", "2">>,
      <<"a", "b", "c">> }

\* ------------------------------------------------- datetime.strptime(%H:%M:%S)
DigitChars == {"0", "1", "2", "3", "4", "5", "6", "7", "8", "9"}

DigitVal(c) ==
    CASE c = "0" -> 0 [] c = "1" -> 1 [] c = "2" -> 2 [] c = "3" -> 3
      [] c = "4" -> 4 [] c = "5" -> 5 [] c = "6" -> 6 [] c = "7" -> 7
      [] c = "8" -> 8 [] c = "9" -> 9

\* The value of a field of one or two digits, or -1 when it is no such field.
FieldVal(f) ==
    IF Len(f) = 1 /\ f[1] \in DigitChars THEN DigitVal(f[1])
    ELSE IF Len(f) = 2 /\ f[1] \in DigitChars /\ f[2] \in DigitChars
         THEN 10 * DigitVal(f[1]) + DigitVal(f[2])
         ELSE -1

\* strptime(s, '%H:%M:%S'): the parsed time, or ok = FALSE for ValueError.
strptime(s) ==
    LET colons == {i \in 1..Len(s) : s[i] = ":"}
        bad == [ok |-> FALSE, hour |-> 0, minute |-> 0, second |-> 0]
    IN  IF Cardinality(colons) # 2 THEN bad
        ELSE LET c1 == CHOOSE i \in colons : \A j \in colons : i <= j
                 c2 == CHOOSE i \in colons : \A j \in colons : j <= i
                 h == FieldVal(SubSeq(s, 1, c1 - 1))
                 m == FieldVal(SubSeq(s, c1 + 1, c2 - 1))
                 sec == FieldVal(SubSeq(s, c2 + 1, Len(s)))
             IN  IF h \in 0..23 /\ m \in 0..59 /\ sec \in 0..61
                 THEN [ok |-> TRUE, hour |-> h, minute |-> m, second |-> sec]
                 ELSE bad

\* timedelta(hours, minutes, seconds) in seconds.
timedelta(hours, minutes, seconds) == 3600 * hours + 60 * minutes + seconds

\* -------------------------------------------------------------- Task model
\* Task.objects.create(**params): the columns the view does not pass take
\* the defaults of the model.
NewTask(name, project, started_at, ended_at, cloned_from) ==
    [ name           |-> name,
      project        |-> project,
      started_at     |-> started_at,
      paused_at      |-> NULL,
      seconds_paused |-> 0,
      ended_at       |-> ended_at,
      cloned_from    |-> cloned_from ]

is_closed(task) == task.ended_at # NULL

toggle_paused(task, t) ==
    IF task.paused_at = NULL
    THEN [task EXCEPT !.paused_at = t]
    ELSE [task EXCEPT !.seconds_paused = @ + (t - task.paused_at),
                      !.paused_at = NULL]

close(task, t) == [task EXCEPT !.ended_at = t]

restart(task, t) ==
    [task EXCEPT !.started_at = t, !.ended_at = NULL,
                 !.paused_at = NULL, !.seconds_paused = 0]

\* ------------------------------------------------------------------ queries
Response(status, ts) == [status |-> status, tasks |-> ts]

\* project__user of a task row.
Owner(ps, task) == ps[task.project].user

\* Task.objects.filter(project__user=user, ended_at__isnull=True,
\*                     paused_at__isnull=True), as the set of ids.
running_tasks(ts, ps, user) ==
    {i \in 1..Len(ts) : /\ Owner(ps, ts[i]) = user
                        /\ ts[i].ended_at = NULL
                        /\ ts[i].paused_at = NULL}

\* Project.objects.get(id=..., user=user) finds a row.
ProjectFound(ps, id, user) == id \in 1..Len(ps) /\ ps[id].user = user

\* Task.objects.get(id=int(pk), project__user=user) finds a row.
TaskFound(ts, ps, pk, user) == pk \in 1..Len(ts) /\ Owner(ps, ts[pk]) = user

\* ----------------------------------------------------------- TasksViewSet
\* The else branch of create: what a request does once it has found no
\* running task.
create_checked(ts, ps, user, data, t) ==
    IF data.project_id.kind = "absent"
    THEN Response(HTTP_400_BAD_REQUEST, ts)
    ELSE IF \/ data.project_id.kind = "text"
            \/ ~ProjectFound(ps, data.project_id.val, user)
    THEN Response(HTTP_400_BAD_REQUEST, ts)
    ELSE LET name == IF data.name # "" THEN data.name ELSE DefaultName
             time_obj == strptime(Str_011505)
         IN  IF data.duration # <<>>
             THEN IF ~time_obj.ok
                  THEN Response(HTTP_400_BAD_REQUEST, ts)
                  ELSE Response(HTTP_201_CREATED,
                         Append(ts, NewTask(name, data.project_id.val, t,
                            t + timedelta(time_obj.hour, time_obj.minute,
                                          time_obj.second),
                            NoTask)))
             ELSE Response(HTTP_201_CREATED,
                    Append(ts, NewTask(name, data.project_id.val, t, NULL,
                                       NoTask)))

\* create as it would be if any open task, paused or not, blocked it.
create_blocked_by_open(ts, ps, user, data, t) ==
    IF \E i \in 1..Len(ts) : Owner(ps, ts[i]) = user /\ ts[i].ended_at = NULL
    THEN Response(HTTP_403_FORBIDDEN, ts)
    ELSE create_checked(ts, ps, user, data, t)

\* create as it would be if the project were validated before the running
\* tasks are looked for.
create_validates_first(ts, ps, user, data, t) ==
    IF \/ data.project_id.kind # "int"
       \/ ~ProjectFound(ps, data.project_id.val, user)
    THEN Response(HTTP_400_BAD_REQUEST, ts)
    ELSE IF running_tasks(ts, ps, user) # {}
    THEN Response(HTTP_403_FORBIDDEN, ts)
    ELSE create_checked(ts, ps, user, data, t)

create(ts, ps, user, data, t) ==
    IF running_tasks(ts, ps, user) # {}
    THEN Response(HTTP_403_FORBIDDEN, ts)
    ELSE create_checked(ts, ps, user, data, t)

\* pause_resume_task as it would be with the is_closed test inverted.
pause_resume_inverted(ts, ps, user, pk, t) ==
    IF ~TaskFound(ts, ps, pk, user)
    THEN Response(HTTP_404_NOT_FOUND, ts)
    ELSE IF is_closed(ts[pk])
    THEN Response(HTTP_200_OK, [ts EXCEPT ![pk] = toggle_paused(@, t)])
    ELSE Response(HTTP_400_BAD_REQUEST, ts)

\* pause_resume_task as it would be without the is_closed check.
pause_resume_closed_too(ts, ps, user, pk, t) ==
    IF ~TaskFound(ts, ps, pk, user)
    THEN Response(HTTP_404_NOT_FOUND, ts)
    ELSE Response(HTTP_200_OK, [ts EXCEPT ![pk] = toggle_paused(@, t)])

pause_resume_task(ts, ps, user, pk, t) ==
    IF ~TaskFound(ts, ps, pk, user)
    THEN Response(HTTP_404_NOT_FOUND, ts)
    ELSE IF ~is_closed(ts[pk])
    THEN Response(HTTP_200_OK, [ts EXCEPT ![pk] = toggle_paused(@, t)])
    ELSE Response(HTTP_400_BAD_REQUEST, ts)

\* close_task as it would be if a paused task were resumed before it is closed.
close_resumes_first(ts, ps, user, pk, t) ==
    IF ~TaskFound(ts, ps, pk, user)
    THEN Response(HTTP_404_NOT_FOUND, ts)
    ELSE IF ~is_closed(ts[pk])
    THEN Response(HTTP_200_OK,
                  [ts EXCEPT ![pk] = close(IF @.paused_at # NULL
                                           THEN toggle_paused(@, t)
                                           ELSE @, t)])
    ELSE Response(HTTP_400_BAD_REQUEST, ts)

\* close_task as it would be if the lookup did not filter on project__user.
close_any_owner(ts, ps, user, pk, t) ==
    IF pk \notin 1..Len(ts)
    THEN Response(HTTP_404_NOT_FOUND, ts)
    ELSE IF ~is_closed(ts[pk])
    THEN Response(HTTP_200_OK, [ts EXCEPT ![pk] = close(@, t)])
    ELSE Response(HTTP_400_BAD_REQUEST, ts)

close_task(ts, ps, user, pk, t) ==
    IF ~TaskFound(ts, ps, pk, user)
    THEN Response(HTTP_404_NOT_FOUND, ts)
    ELSE IF ~is_closed(ts[pk])
    THEN Response(HTTP_200_OK, [ts EXCEPT ![pk] = close(@, t)])
    ELSE Response(HTTP_400_BAD_REQUEST, ts)

\* restart_task as it would be if it called task.close(), as close_task does.
restart_calls_close(ts, ps, user, pk, t) ==
    IF ~TaskFound(ts, ps, pk, user)
    THEN Response(HTTP_404_NOT_FOUND, ts)
    ELSE IF ~is_closed(ts[pk])
    THEN Response(HTTP_200_OK, [ts EXCEPT ![pk] = close(@, t)])
    ELSE Response(HTTP_400_BAD_REQUEST, ts)

\* restart_task as it would be without the is_closed check.
restart_closed_too(ts, ps, user, pk, t) ==
    IF ~TaskFound(ts, ps, pk, user)
    THEN Response(HTTP_404_NOT_FOUND, ts)
    ELSE Response(HTTP_200_OK, [ts EXCEPT ![pk] = restart(@, t)])

\* restart_task as it would be if the restart left paused_at as it was.
restart_keeps_paused_at(ts, ps, user, pk, t) ==
    IF ~TaskFound(ts, ps, pk, user)
    THEN Response(HTTP_404_NOT_FOUND, ts)
    ELSE IF ~is_closed(ts[pk])
    THEN Response(HTTP_200_OK,
                  [ts EXCEPT ![pk] = [restart(@, t) EXCEPT
                                        !.paused_at = ts[pk].paused_at]])
    ELSE Response(HTTP_400_BAD_REQUEST, ts)

\* restart_task as it would be if task.restart() ran before the is_closed test.
restart_before_check(ts, ps, user, pk, t) ==
    IF ~TaskFound(ts, ps, pk, user)
    THEN Response(HTTP_404_NOT_FOUND, ts)
    ELSE IF ~is_closed(ts[pk])
    THEN Response(HTTP_200_OK, [ts EXCEPT ![pk] = restart(@, t)])
    ELSE Response(HTTP_400_BAD_REQUEST, [ts EXCEPT ![pk] = restart(@, t)])

restart_task(ts, ps, user, pk, t) ==
    IF ~TaskFound(ts, ps, pk, user)
    THEN Response(HTTP_404_NOT_FOUND, ts)
    ELSE IF ~is_closed(ts[pk])
    THEN Response(HTTP_200_OK, [ts EXCEPT ![pk] = restart(@, t)])
    ELSE Response(HTTP_400_BAD_REQUEST, ts)

\* The else branch of continue_task as it would be without the
\* ended_at__isnull=False filter of the lookup.
continue_open_too(ts, ps, user, id, t) ==
    IF id.kind = "absent"
    THEN Response(HTTP_400_BAD_REQUEST, ts)
    ELSE IF id.kind = "text"
    THEN Response(HTTP_500_SERVER_ERROR, ts)
    ELSE IF ~TaskFound(ts, ps, id.val, user)
    THEN Response(HTTP_404_NOT_FOUND, ts)
    ELSE Response(HTTP_201_CREATED,
           Append(ts, NewTask(ts[id.val].name, ts[id.val].project, t, NULL,
                              id.val)))

\* The else branch of continue_task as it would be without 'name' in kwargs.
continue_without_name(ts, ps, user, id, t) ==
    IF id.kind = "absent"
    THEN Response(HTTP_400_BAD_REQUEST, ts)
    ELSE IF id.kind = "text"
    THEN Response(HTTP_500_SERVER_ERROR, ts)
    ELSE IF ~(TaskFound(ts, ps, id.val, user) /\ ts[id.val].ended_at # NULL)
    THEN Response(HTTP_404_NOT_FOUND, ts)
    ELSE Response(HTTP_201_CREATED,
           Append(ts, NewTask(DefaultName, ts[id.val].project, t, NULL,
                              id.val)))

\* The else branch of continue_task.  int(task_id) of a text raises
\* ValueError, which the view does not catch: the framework answers 500.
continue_checked(ts, ps, user, id, t) ==
    IF id.kind = "absent"
    THEN Response(HTTP_400_BAD_REQUEST, ts)
    ELSE IF id.kind = "text"
    THEN Response(HTTP_500_SERVER_ERROR, ts)
    ELSE IF ~(TaskFound(ts, ps, id.val, user) /\ ts[id.val].ended_at # NULL)
    THEN Response(HTTP_404_NOT_FOUND, ts)
    ELSE Response(HTTP_201_CREATED,
           Append(ts, NewTask(ts[id.val].name, ts[id.val].project, t, NULL,
                              id.val)))

\* continue_task as it would be without the running-task check.
continue_unchecked(ts, ps, user, id, t) ==
    continue_checked(ts, ps, user, id, t)

continue_task(ts, ps, user, id, t) ==
    IF running_tasks(ts, ps, user) # {}
    THEN Response(HTTP_403_FORBIDDEN, ts)
    ELSE continue_checked(ts, ps, user, id, t)

\* ---------------------------------------------------------- ProjectViewSet
\* ProjectSerializer(data).is_valid(): a project needs a name.
ProjectIsValid(name) == name # ""

project_create(ps, user, name) ==
    IF ~ProjectIsValid(name)
    THEN [status |-> HTTP_400_BAD_REQUEST, projects |-> ps]
    ELSE [status |-> HTTP_201_CREATED,
          projects |-> Append(ps, [user |-> user, name |-> name])]

\* ------------------------------------------------------------------ actions
Request(op, user, pk, status) ==
    [op |-> op, user |-> user, pk |-> pk, status |-> status]

\* One more step: a request is served or the clock ticks.
Step ==
    /\ steps < MaxSteps
    /\ steps' = steps + 1

NoRequest == Request("none", "A", 0, 0)

\* The server processes that serve requests side by side.
Workers == {"w1", "w2"}

NoData == [project_id |-> Absent, name |-> "", duration |-> <<>>, id |-> Absent]

\* A worker between two requests; created is the id of the task that the
\* request it served last inserted, or NoTask.
Idle == [pc |-> "idle", op |-> "none", user |-> "A", data |-> NoData,
         created |-> NoTask]

Init ==
    /\ projects = <<>>
    /\ tasks = <<>>
    /\ now = 0
    /\ last = NoRequest
    /\ steps = 0
    /\ inflight = [w \in Workers |-> Idle]

\* The clock between two requests.
Tick ==
    /\ now < MaxTime
    /\ now' = now + 1
    /\ Step
    /\ UNCHANGED <<projects, tasks, last, inflight>>

ProjectCreate(user, name) ==
    LET r == project_create(projects, user, name)
    IN  /\ Step
        /\ Len(r.projects) <= MaxProjects
        /\ projects' = r.projects
        /\ last' = Request("project_create", user, 0, r.status)
        /\ UNCHANGED <<tasks, now, inflight>>

Create(user, data) ==
    LET r == create(tasks, projects, user, data, now)
    IN  /\ Step
        /\ Len(r.tasks) <= MaxTasks
        /\ tasks' = r.tasks
        /\ last' = Request("create", user, data.project_id.val, r.status)
        /\ UNCHANGED <<projects, now, inflight>>

PauseResume(user, pk) ==
    LET r == pause_resume_task(tasks, projects, user, pk, now)
    IN  /\ Step
        /\ tasks' = r.tasks
        /\ last' = Request("pause_resume", user, pk, r.status)
        /\ UNCHANGED <<projects, now, inflight>>

Close(user, pk) ==
    LET r == close_task(tasks, projects, user, pk, now)
    IN  /\ Step
        /\ tasks' = r.tasks
        /\ last' = Request("close", user, pk, r.status)
        /\ UNCHANGED <<projects, now, inflight>>

Restart(user, pk) ==
    LET r == restart_task(tasks, projects, user, pk, now)
    IN  /\ Step
        /\ tasks' = r.tasks
        /\ last' = Request("restart", user, pk, r.status)
        /\ UNCHANGED <<projects, now, inflight>>

Continue(user, id) ==
    LET r == continue_task(tasks, projects, user, id, now)
    IN  /\ Step
        /\ Len(r.tasks) <= MaxTasks
        /\ tasks' = r.tasks
        /\ last' = Request("continue", user, id.val, r.status)
        /\ UNCHANGED <<projects, now, inflight>>

CreateInputs ==
    [project_id : IdInputs(MaxProjects), name : NameInputs,
     duration : DurationInputs]

Next ==
    \/ Tick
    \/ \E user \in Users, name \in ProjectNameInputs : ProjectCreate(user, name)
    \/ \E user \in Users, data \in CreateInputs : Create(user, data)
    \/ \E user \in Users, pk \in 1..MaxTasks : PauseResume(user, pk)
    \/ \E user \in Users, pk \in 1..MaxTasks : Close(user, pk)
    \/ \E user \in Users, pk \in 1..MaxTasks : Restart(user, pk)
    \/ \E user \in Users, id \in IdInputs(MaxTasks) : Continue(user, id)

Spec == Init /\ [][Next]_vars

\* ------------------------------------------- requests served side by side
\* The views open no transaction and take no lock: running_tasks.exists()
\* and Task.objects.create() are two statements of the store, and another
\* worker's statements may run between them.
Checked(op, user, data) ==
    [pc |-> "checked", op |-> op, user |-> user, data |-> data,
     created |-> NoTask]

\* A worker that has answered; it keeps the id of the row it inserted.
Served(created) == [Idle EXCEPT !.created = created]

\* The id of the row a response of 201 inserted.
Inserted(r) == IF r.status = HTTP_201_CREATED THEN Len(r.tasks) ELSE NoTask

\* create up to running_tasks.exists().
CheckCreate(w, user, data) ==
    /\ inflight[w].pc = "idle"
    /\ Step
    /\ IF running_tasks(tasks, projects, user) # {}
       THEN /\ last' = Request("create", user, data.project_id.val,
                               HTTP_403_FORBIDDEN)
            /\ inflight' = [inflight EXCEPT
                               ![w] = Served(NoTask)]
       ELSE /\ last' = last
            /\ inflight' = [inflight EXCEPT
                               ![w] = Checked("create", user, data)]
    /\ UNCHANGED <<projects, tasks, now>>

\* create from the else branch to the response.
FinishCreate(w) ==
    LET req == inflight[w]
        r == create_checked(tasks, projects, req.user, req.data, now)
    IN  /\ req.pc = "checked"
        /\ req.op = "create"
        /\ Len(r.tasks) <= MaxTasks
        /\ tasks' = r.tasks
        /\ last' = Request("create", req.user, req.data.project_id.val,
                           r.status)
        /\ inflight' = [inflight EXCEPT
               ![w] = Served(Inserted(r))]
        /\ UNCHANGED <<projects, now, steps>>

\* continue_task up to running_tasks.exists().
CheckContinue(w, user, data) ==
    /\ inflight[w].pc = "idle"
    /\ Step
    /\ IF running_tasks(tasks, projects, user) # {}
       THEN /\ last' = Request("continue", user, data.id.val,
                               HTTP_403_FORBIDDEN)
            /\ inflight' = [inflight EXCEPT
                               ![w] = Served(NoTask)]
       ELSE /\ last' = last
            /\ inflight' = [inflight EXCEPT
                               ![w] = Checked("continue", user, data)]
    /\ UNCHANGED <<projects, tasks, now>>

\* continue_task from the else branch to the response.
FinishContinue(w) ==
    LET req == inflight[w]
        r == continue_checked(tasks, projects, req.user, req.data.id, now)
    IN  /\ req.pc = "checked"
        /\ req.op = "continue"
        /\ Len(r.tasks) <= MaxTasks
        /\ tasks' = r.tasks
        /\ last' = Request("continue", req.user, req.data.id.val, r.status)
        /\ inflight' = [inflight EXCEPT
               ![w] = Served(Inserted(r))]
        /\ UNCHANGED <<projects, now, steps>>

\* The bodies of the requests served side by side: well-formed ones, with
\* and without a duration.
CreateData ==
    {[NoData EXCEPT !.project_id = Num(n), !.duration = d] :
        n \in 1..MaxProjects, d \in {<<>>, <<"0", ":", "0", ":", "2">>}}

ContinueData == {[NoData EXCEPT !.id = Num(n)] : n \in 1..MaxTasks}

NextConc ==
    \/ Tick
    \/ \E user \in Users, name \in ProjectNameInputs : ProjectCreate(user, name)
    \/ \E user \in Users, pk \in 1..MaxTasks : Close(user, pk)
    \/ \E w \in Workers, user \in Users, data \in CreateData :
          CheckCreate(w, user, data)
    \/ \E w \in Workers : FinishCreate(w)
    \/ \E w \in Workers, user \in Users, data \in ContinueData :
          CheckContinue(w, user, data)
    \/ \E w \in Workers : FinishContinue(w)

SpecConc == Init /\ [][NextConc]_vars

\* =================================================================== claims
\* A step that serves a request of kind op.
Serves(op) == steps' # steps /\ now' = now /\ last'.op = op

OpenTasks(ts, ps, user) ==
    {i \in 1..Len(ts) : Owner(ps, ts[i]) = user /\ ts[i].ended_at = NULL}

\* C1: in every reachable state each user owns at most one running task
\* (paused_at = null and ended_at = null).
C1_AtMostOneRunningTask ==
    \A user \in Users : Cardinality(running_tasks(tasks, projects, user)) <= 1

\* C2: POST /tasks by a user is answered 403 exactly when that user owns a
\* running task, and a 403 creates no task; paused tasks of the user and
\* tasks of other users do not cause it.
C2_CreateForbiddenIffRunning ==
    [][ Serves("create") =>
          /\ (last'.status = HTTP_403_FORBIDDEN)
                <=> (running_tasks(tasks, projects, last'.user) # {})
          /\ (last'.status = HTTP_403_FORBIDDEN => tasks' = tasks) ]_vars

\* A create was refused with 403 while the caller owned a running task.
C2_Witness ==
    /\ last.op = "create"
    /\ last.status = HTTP_403_FORBIDDEN
    /\ running_tasks(tasks, projects, last.user) # {}

\* C3, as stated: create and continue fail with Forbidden whenever the
\* caller has any open task (ended_at = null), paused or not.
C3_ForbiddenWheneverOpen ==
    [][ (Serves("create") \/ Serves("continue"))
          /\ OpenTasks(tasks, projects, last'.user) # {}
        => last'.status = HTTP_403_FORBIDDEN ]_vars

\* C3, amended: create and continue fail with Forbidden exactly when the
\* caller has a running task; an open task that is paused does not block.
C3_ForbiddenIffRunning ==
    [][ (Serves("create") \/ Serves("continue")) =>
          ((last'.status = HTTP_403_FORBIDDEN)
             <=> (running_tasks(tasks, projects, last'.user) # {})) ]_vars

\* A create or continue was accepted although the caller owns an open,
\* paused task.
C3_Witness ==
    /\ last.op \in {"create", "continue"}
    /\ last.status = HTTP_201_CREATED
    /\ \E i \in OpenTasks(tasks, projects, last.user) :
          tasks[i].paused_at # NULL

\* C4: a closed task stays as it is: no step changes any field of a task
\* whose ended_at is set, and pause_resume, close and restart on it (by the
\* user whose lookup finds it) are answered 400.
C4_ClosedIsTerminal ==
    [][ \A i \in 1..Len(tasks) : tasks[i].ended_at # NULL =>
          /\ i <= Len(tasks')
          /\ tasks'[i] = tasks[i]
          /\ ( /\ Serves("pause_resume") \/ Serves("close") \/ Serves("restart")
               /\ last'.pk = i
               /\ Owner(projects, tasks[i]) = last'.user
               => last'.status = HTTP_400_BAD_REQUEST ) ]_vars

\* A restart of a closed task was answered 400.
C4_Witness ==
    /\ last.op = "restart"
    /\ last.status = HTTP_400_BAD_REQUEST
    /\ last.pk \in 1..Len(tasks)
    /\ tasks[last.pk].ended_at # NULL

\* C5: two create/continue requests of one user that run side by side
\* cannot both pass the running-task check and both insert a running task.
C5_CheckAndInsertAtomic ==
    \A w1, w2 \in Workers :
        LET a == inflight[w1].created
            b == inflight[w2].created
        IN  ~ ( /\ w1 # w2
                /\ a # NoTask
                /\ b # NoTask
                /\ a # b
                /\ Owner(projects, tasks[a]) = Owner(projects, tasks[b])
                /\ tasks[a].ended_at = NULL /\ tasks[a].paused_at = NULL
                /\ tasks[b].ended_at = NULL /\ tasks[b].paused_at = NULL )

\* The request of a step is about task i, and the caller's lookup finds it.
Targets(i) ==
    /\ last'.pk = i
    /\ TaskFound(tasks, projects, i, last'.user)

\* C6: pause_resume on an open task that is not paused, at t1, sets only
\* paused_at = t1 and leaves the task open; a second pause_resume at any
\* t2 >= t1 then leaves paused_at = null and seconds_paused larger by
\* exactly t2 - t1, with every other field as before the first request.
\* A pause_resume on a paused task adds now - paused_at in the same way.
C6_TogglePausedTwice ==
    [][ \A i \in 1..Len(tasks) :
          Serves("pause_resume") /\ Targets(i) /\ tasks[i].ended_at = NULL =>
            /\ last'.status = HTTP_200_OK
            /\ tasks[i].paused_at = NULL =>
                 /\ tasks' = [tasks EXCEPT ![i].paused_at = now]
                 /\ tasks'[i].ended_at = NULL
                 /\ \A t2 \in now..MaxTime :
                      LET r == pause_resume_task(tasks', projects, last'.user,
                                                 i, t2)
                      IN  /\ r.status = HTTP_200_OK
                          /\ r.tasks = [tasks EXCEPT
                                ![i].seconds_paused = @ + (t2 - now)]
            /\ tasks[i].paused_at # NULL =>
                 tasks' = [tasks EXCEPT
                    ![i].paused_at = NULL,
                    ![i].seconds_paused = @ + (now - tasks[i].paused_at)] ]_vars

\* A task was paused and, later, resumed: it runs again and its
\* seconds_paused is the time that passed in between.
C6_Witness ==
    /\ last.op = "pause_resume"
    /\ last.status = HTTP_200_OK
    /\ last.pk \in 1..Len(tasks)
    /\ tasks[last.pk].paused_at = NULL
    /\ tasks[last.pk].ended_at = NULL
    /\ tasks[last.pk].seconds_paused > 0

C8_ContinueOpenIsNotFound ==
    [][ \A i \in 1..Len(tasks) :
          Serves("continue") /\ last'.pk = i /\ tasks[i].ended_at = NULL =>
            /\ last'.status = HTTP_404_NOT_FOUND
            /\ tasks' = tasks ]_vars

\* C8, amended: continue_task with the id of an open task creates no task
\* and yields 404, unless the caller owns a running task: then it yields 403.
C8_ContinueOpenIsNotFoundOrForbidden ==
    [][ \A i \in 1..Len(tasks) :
          Serves("continue") /\ last'.pk = i /\ tasks[i].ended_at = NULL =>
            /\ tasks' = tasks
            /\ last'.status =
                 IF running_tasks(tasks, projects, last'.user) # {}
                 THEN HTTP_403_FORBIDDEN
                 ELSE HTTP_404_NOT_FOUND ]_vars

\* A continue of the caller's own open (paused) task was answered 404.
C8_Witness ==
    /\ last.op = "continue"
    /\ last.status = HTTP_404_NOT_FOUND
    /\ TaskFound(tasks, projects, last.pk, last.user)
    /\ tasks[last.pk].ended_at = NULL

\* C9: a continue_task answered 201 was given a closed task T of the caller
\* and adds exactly one task: name and project of T, cloned_from = T,
\* started_at = now, running with seconds_paused = 0; every task that
\* existed is unchanged.
C9_ContinueAddsRunningClone ==
    [][ Serves("continue") /\ last'.status = HTTP_201_CREATED =>
          /\ TaskFound(tasks, projects, last'.pk, last'.user)
          /\ tasks[last'.pk].ended_at # NULL
          /\ tasks' = Append(tasks,
                [ name           |-> tasks[last'.pk].name,
                  project        |-> tasks[last'.pk].project,
                  started_at     |-> now,
                  paused_at      |-> NULL,
                  seconds_paused |-> 0,
                  ended_at       |-> NULL,
                  cloned_from    |-> last'.pk ]) ]_vars

\* A closed task that was given a name was continued.
C9_Witness ==
    /\ last.op = "continue"
    /\ last.status = HTTP_201_CREATED
    /\ tasks[Len(tasks)].cloned_from = last.pk
    /\ tasks[Len(tasks)].name = "n"

\* Following cloned_from from task i ends at a task without predecessor
\* within n links.
RECURSIVE ChainEnds(_, _)
ChainEnds(i, n) ==
    \/ i = NoTask
    \/ /\ n > 0
       /\ i \in 1..Len(tasks)
       /\ ChainEnds(tasks[i].cloned_from, n - 1)

\* C10: cloned_from has no cycle, and every task with cloned_from set
\* references a closed task of the same project.
C10_ClonedFromClosedAcyclic ==
    \A i \in 1..Len(tasks) :
        /\ ChainEnds(i, Len(tasks))
        /\ tasks[i].cloned_from # NoTask =>
             /\ tasks[i].cloned_from \in 1..Len(tasks)
             /\ tasks[tasks[i].cloned_from].ended_at # NULL
             /\ tasks[tasks[i].cloned_from].project = tasks[i].project

\* Some task continues another.
C10_Witness ==
    \E i \in 1..Len(tasks) : tasks[i].cloned_from # NoTask

\* C11: in every reachable state a task with paused_at set is open.
C11_PausedImpliesOpen ==
    \A i \in 1..Len(tasks) :
        tasks[i].paused_at # NULL => tasks[i].ended_at = NULL

\* The duration of a request body in seconds.
DurationSeconds(d) ==
    timedelta(strptime(d).hour, strptime(d).minute, strptime(d).second)

\* C12: a create answered 201 whose body holds a duration d in H:M:S form
\* adds a closed task with ended_at = started_at + d, which is not running.
C12_EndedAtIsStartPlusDuration ==
    [][ \A user \in Users, data \in CreateInputs :
          /\ Create(user, data)
          /\ last'.status = HTTP_201_CREATED
          /\ data.duration # <<>>
          /\ strptime(data.duration).ok
          => /\ Len(tasks') = Len(tasks) + 1
             /\ tasks'[Len(tasks')].ended_at =
                  tasks'[Len(tasks')].started_at
                    + DurationSeconds(data.duration)
             /\ Len(tasks') \notin running_tasks(tasks', projects', user) ]_vars

\* C13: a create that gets as far as the duration, with a duration that is
\* not a well-formed H:M:S string, is answered 400 and creates no task.
C13_MalformedDurationIsBadRequest ==
    [][ \A user \in Users, data \in CreateInputs :
          /\ Create(user, data)
          /\ running_tasks(tasks, projects, user) = {}
          /\ data.project_id.kind = "int"
          /\ ProjectFound(projects, data.project_id.val, user)
          /\ data.duration # <<>>
          /\ ~strptime(data.duration).ok
          => /\ last'.status = HTTP_400_BAD_REQUEST
             /\ tasks' = tasks ]_vars

\* A step that serves a request, whatever its kind.
ServesAny == steps' # steps /\ now' = now

\* The rows of users other than the caller are as they were, and every new
\* row belongs to the caller.
OthersUntouched(user) ==
    /\ Len(projects') >= Len(projects)
    /\ Len(tasks') >= Len(tasks)
    /\ \A j \in 1..Len(projects) :
          projects[j].user # user => projects'[j] = projects[j]
    /\ \A j \in (Len(projects) + 1)..Len(projects') : projects'[j].user = user
    /\ \A i \in 1..Len(tasks) :
          Owner(projects, tasks[i]) # user => tasks'[i] = tasks[i]
    /\ \A i \in (Len(tasks) + 1)..Len(tasks') :
          Owner(projects', tasks'[i]) = user

\* The request of a step names task i, which is another user's.
TargetsForeignTask(i) ==
    /\ last'.pk = i
    /\ Owner(projects, tasks[i]) # last'.user

\* The create of a step names project j, which is another user's.
TargetsForeignProject(j) ==
    /\ Serves("create")
    /\ last'.pk = j
    /\ projects[j].user # last'.user

\* C14, as stated: no request of a user changes or creates a row of another
\* user; pause_resume, close, restart and continue on another user's task
\* are answered 404 and create with another user's project 400.
C14_ForeignRequestsRefused ==
    [][ ServesAny =>
          /\ OthersUntouched(last'.user)
          /\ \A i \in 1..Len(tasks) : TargetsForeignTask(i) =>
               /\ Serves("pause_resume") \/ Serves("close") \/ Serves("restart")
                    => last'.status = HTTP_404_NOT_FOUND
               /\ Serves("continue") => last'.status = HTTP_404_NOT_FOUND
          /\ \A j \in 1..Len(projects) : TargetsForeignProject(j) =>
               last'.status = HTTP_400_BAD_REQUEST ]_vars

\* C14, amended: as stated, except that continue and create are answered 403
\* when the caller owns a running task (404 and 400 when the caller does not).
C14_ForeignRequestsRefusedOrForbidden ==
    [][ ServesAny =>
          /\ OthersUntouched(last'.user)
          /\ \A i \in 1..Len(tasks) : TargetsForeignTask(i) =>
               /\ Serves("pause_resume") \/ Serves("close") \/ Serves("restart")
                    => last'.status = HTTP_404_NOT_FOUND
               /\ Serves("continue") =>
                    last'.status =
                      IF running_tasks(tasks, projects, last'.user) # {}
                      THEN HTTP_403_FORBIDDEN
                      ELSE HTTP_404_NOT_FOUND
          /\ \A j \in 1..Len(projects) : TargetsForeignProject(j) =>
               last'.status =
                 IF running_tasks(tasks, projects, last'.user) # {}
                 THEN HTTP_403_FORBIDDEN
                 ELSE HTTP_400_BAD_REQUEST ]_vars

\* A close of another user's open task was answered 404, and the task is
\* still open.
C14_Witness ==
    /\ last.op = "close"
    /\ last.status = HTTP_404_NOT_FOUND
    /\ last.pk \in 1..Len(tasks)
    /\ Owner(projects, tasks[last.pk]) # last.user
    /\ tasks[last.pk].ended_at = NULL

\* C15: close on an open task of the caller is answered 200 and sets only
\* ended_at = now; started_at, paused_at, seconds_paused and cloned_from of
\* the task, and every other task, keep their values, so a paused task stays
\* with its paused_at and its seconds_paused.
C15_CloseSetsOnlyEndedAt ==
    [][ \A i \in 1..Len(tasks) :
          /\ Serves("close")
          /\ Targets(i)
          /\ tasks[i].ended_at = NULL
          => /\ last'.status = HTTP_200_OK
             /\ tasks' = [tasks EXCEPT ![i].ended_at = now] ]_vars

\* A task that was paused when it was closed: the close was answered 200 and
\* the task keeps its paused_at.
C15_Witness ==
    /\ last.op = "close"
    /\ last.status = HTTP_200_OK
    /\ last.pk \in 1..Len(tasks)
    /\ tasks[last.pk].ended_at # NULL
    /\ tasks[last.pk].paused_at # NULL

\* The project_id of a create request names a project of the caller.
ProjectValid(user, data) ==
    /\ data.project_id.kind = "int"
    /\ ProjectFound(projects, data.project_id.val, user)

\* The id of a continue request names a closed task of the caller.
ClosedTaskFound(user, id) ==
    /\ TaskFound(tasks, projects, id.val, user)
    /\ tasks[id.val].ended_at # NULL

\* C16: a request gets the status of the earliest check it fails. create:
\* 403 when the caller has a running task, whatever the project_id; else 400
\* when the project_id is missing or names no project of the caller.
\* continue_task: 403 when the caller has a running task, whatever the id;
\* else 400 when the id is missing, even though no task is found; else 404
\* when the id is a number that names no closed task of the caller.
C16_EarliestCheckDecides ==
    [][ /\ Serves("create") =>
             \A user \in {last'.user}, data \in CreateInputs :
               /\ data.project_id.val = last'.pk
               /\ Create(user, data)
               => IF running_tasks(tasks, projects, user) # {}
                  THEN last'.status = HTTP_403_FORBIDDEN
                  ELSE ~ProjectValid(user, data)
                         => last'.status = HTTP_400_BAD_REQUEST
        /\ Serves("continue") =>
             \A user \in {last'.user}, id \in IdInputs(MaxTasks) :
               /\ id.val = last'.pk
               /\ Continue(user, id)
               => IF running_tasks(tasks, projects, user) # {}
                  THEN last'.status = HTTP_403_FORBIDDEN
                  ELSE IF id.kind = "absent"
                  THEN last'.status = HTTP_400_BAD_REQUEST
                  ELSE id.kind = "int" /\ ~ClosedTaskFound(user, id)
                         => last'.status = HTTP_404_NOT_FOUND ]_vars

\* A create that failed both checks, the caller having a running task and
\* the project_id naming no project of the caller, was answered 403.
C16_Witness ==
    /\ last.op = "create"
    /\ last.status = HTTP_403_FORBIDDEN
    /\ running_tasks(tasks, projects, last.user) # {}
    /\ ~ProjectFound(projects, last.pk, last.user)

\* C17: a request answered 400, 403 or 404 leaves the whole store as it was:
\* no task and no project is created, and no field of a task changes.
C17_RefusedRequestsChangeNothing ==
    [][ /\ ServesAny
        /\ last'.status \in {HTTP_400_BAD_REQUEST, HTTP_403_FORBIDDEN,
                             HTTP_404_NOT_FOUND}
        => /\ tasks' = tasks
           /\ projects' = projects ]_vars

\* A restart of a closed task of the caller was answered 400, and the task
\* is still closed.
C17_Witness ==
    /\ last.op = "restart"
    /\ last.status = HTTP_400_BAD_REQUEST
    /\ TaskFound(tasks, projects, last.pk, last.user)
    /\ tasks[last.pk].ended_at # NULL

\* The end of the time a task has been worked on or paused: ended_at once
\* it is closed, the clock until then.
EndOrNow(task) == IF task.ended_at # NULL THEN task.ended_at ELSE now

\* C18: the clock never going back, every task of every reachable state has
\* seconds_paused >= 0, paused_at >= started_at when paused_at is set,
\* ended_at >= started_at when ended_at is set, and seconds_paused no larger
\* than (ended_at if closed, else now) - started_at.
C18_TimingBounds ==
    \A i \in 1..Len(tasks) :
        /\ tasks[i].seconds_paused >= 0
        /\ tasks[i].paused_at # NULL => tasks[i].paused_at >= tasks[i].started_at
        /\ tasks[i].ended_at # NULL => tasks[i].ended_at >= tasks[i].started_at
        /\ tasks[i].seconds_paused <= EndOrNow(tasks[i]) - tasks[i].started_at

\* An open task that has been paused for the whole time since it started,
\* and resumed: seconds_paused is positive and equal to now - started_at.
C18_Witness ==
    \E i \in 1..Len(tasks) :
        /\ tasks[i].ended_at = NULL
        /\ tasks[i].paused_at = NULL
        /\ tasks[i].seconds_paused > 0
        /\ tasks[i].seconds_paused = now - tasks[i].started_at

====
